---- MODULE Spec2Model ----
(***************************************************************************)
(* Model of the Dropwizard input plugin                                    *)
(* (plugins/inputs/dropwizard/dropwizard.go).                              *)
(*                                                                         *)
(* Two specifications share the module:                                    *)
(*   Spec        one Dropwizard value driven through successive Gather     *)
(*               passes; every per-URL goroutine is an interleaved         *)
(*               process.                                                  *)
(*   SpecDecode  gaugeValue.UnmarshalJSON applied to every JSON scalar     *)
(*               token of bounded length.                                  *)
(*                                                                         *)
(* Text is modelled as a sequence of one-character strings, so that the    *)
(* parsers and strings.Trim work on characters as the Go code does.        *)
(***************************************************************************)
EXTENDS Integers, Sequences, FiniteSets, Bags, TLC

(* ------------------------------ bounds --------------------------------- *)

MaxURLs == 2

MaxClock == 1

MaxTokLen == 4
MaxPasses == 2
MaxPassURLs == 1

(* ---------------------------- characters ------------------------------- *)

QUOTE == "\""

BACKSLASH == "\\"

Digits == {"0", "1", "2"}

Alphabet == Digits \cup {"-", ".", "e", "k", QUOTE, BACKSLASH}

DigitVal(c) ==
    CASE c = "0" -> 0 [] c = "1" -> 1 [] c = "2" -> 2 [] c = "3" -> 3
      [] c = "4" -> 4 [] c = "5" -> 5 [] c = "6" -> 6 [] c = "7" -> 7
      [] c = "8" -> 8 [] c = "9" -> 9

AllDigitChars == {"0", "1", "2", "3", "4", "5", "6", "7", "8", "9"}

IsDigit(c) == c \in AllDigitChars

AllDigits(s) == \A i \in 1..Len(s) : IsDigit(s[i])

RECURSIVE DigitsVal(_)
DigitsVal(s) ==
    IF Len(s) = 0 THEN 0
    ELSE 10 * DigitsVal(SubSeq(s, 1, Len(s) - 1)) + DigitVal(s[Len(s)])

(* index of the first occurrence of a character of cs in s, 0 when none *)
RECURSIVE IndexAny(_, _, _)
IndexAny(s, cs, i) ==
    IF i > Len(s) THEN 0
    ELSE IF s[i] \in cs THEN i
    ELSE IndexAny(s, cs, i + 1)

Tail0(s, k) == SubSeq(s, k + 1, Len(s))

(* -------------------------- strings.Trim ------------------------------- *)

RECURSIVE TrimLeft(_, _)
TrimLeft(s, cutset) ==
    IF Len(s) > 0 /\ s[1] \in cutset THEN TrimLeft(Tail0(s, 1), cutset)
    ELSE s

RECURSIVE TrimRight(_, _)
TrimRight(s, cutset) ==
    IF Len(s) > 0 /\ s[Len(s)] \in cutset
    THEN TrimRight(SubSeq(s, 1, Len(s) - 1), cutset)
    ELSE s

Trim(s, cutset) == TrimRight(TrimLeft(s, cutset), cutset)

(* ------------------------ strconv.ParseInt ----------------------------- *)
(* ParseInt(s, 10, 64): optional sign, then one or more decimal digits;    *)
(* a magnitude above 2^63-1 (2^63 for a negative number) is a range error. *)

MaxInt64Text ==
    <<"9", "2", "2", "3", "3", "7", "2", "0", "3", "6",
      "8", "5", "4", "7", "7", "5", "8", "0", "7">>

MinInt64Text ==
    <<"9", "2", "2", "3", "3", "7", "2", "0", "3", "6",
      "8", "5", "4", "7", "7", "5", "8", "0", "8">>

(* a <= b for digit strings of equal length *)
RECURSIVE DigitsLeq(_, _, _)
DigitsLeq(a, b, i) ==
    IF i > Len(a) THEN TRUE
    ELSE IF DigitVal(a[i]) < DigitVal(b[i]) THEN TRUE
    ELSE IF DigitVal(a[i]) > DigitVal(b[i]) THEN FALSE
    ELSE DigitsLeq(a, b, i + 1)

InInt64Range(digits, neg) ==
    LET sig   == TrimLeft(digits, {"0"})
        limit == IF neg THEN MinInt64Text ELSE MaxInt64Text
    IN  \/ Len(sig) < Len(limit)
        \/ Len(sig) = Len(limit) /\ DigitsLeq(sig, limit, 1)

ParseInt(s) ==
    LET signed == Len(s) > 0 /\ s[1] \in {"+", "-"}
        body   == IF signed THEN Tail0(s, 1) ELSE s
        neg    == signed /\ s[1] = "-"
    IN  IF Len(s) = 0 \/ Len(body) = 0 \/ ~AllDigits(body)
             \/ ~InInt64Range(body, neg)
        THEN [ok |-> FALSE, val |-> 0]
        ELSE [ok |-> TRUE,
              val |-> IF neg THEN 0 - DigitsVal(body) ELSE DigitsVal(body)]

(* ------------------------ strconv.ParseFloat --------------------------- *)
(* A float64 is kept as the decimal it was read from: mant * 10^exp with   *)
(* mant not divisible by ten (0 is <<0, 0>>).                              *)

RECURSIVE NormDec(_, _)
NormDec(m, e) ==
    IF m = 0 THEN <<0, 0>>
    ELSE IF m % 10 = 0 THEN NormDec(m \div 10, e + 1)
    ELSE <<m, e>>

ParseFloat(s) ==
    LET signed == Len(s) > 0 /\ s[1] \in {"+", "-"}
        neg    == signed /\ s[1] = "-"
        body   == IF signed THEN Tail0(s, 1) ELSE s
        ePos   == IndexAny(body, {"e", "E"}, 1)
        mant   == IF ePos = 0 THEN body ELSE SubSeq(body, 1, ePos - 1)
        expo   == IF ePos = 0 THEN <<>> ELSE Tail0(body, ePos)
        eSign  == Len(expo) > 0 /\ expo[1] \in {"+", "-"}
        eNeg   == eSign /\ expo[1] = "-"
        eDig   == IF eSign THEN Tail0(expo, 1) ELSE expo
        dot    == IndexAny(mant, {"."}, 1)
        ip     == IF dot = 0 THEN mant ELSE SubSeq(mant, 1, dot - 1)
        fp     == IF dot = 0 THEN <<>> ELSE Tail0(mant, dot)
        okMant == AllDigits(ip) /\ AllDigits(fp) /\ Len(ip) + Len(fp) > 0
        okExp  == ePos = 0 \/ (Len(eDig) > 0 /\ AllDigits(eDig))
        m      == DigitsVal(ip \o fp)
        e10    == (IF ePos = 0 THEN 0
                   ELSE IF eNeg THEN 0 - DigitsVal(eDig) ELSE DigitsVal(eDig))
                  - Len(fp)
    IN  IF okMant /\ okExp
        THEN [ok |-> TRUE, val |-> NormDec(IF neg THEN 0 - m ELSE m, e10)]
        ELSE [ok |-> FALSE, val |-> <<0, 0>>]

(* ----------------------------- gaugeValue ------------------------------ *)

IntType == 0

FloatType == 1

StringType == 2

ZeroGaugeValue ==
    [IntValue |-> 0, FloatValue |-> <<0, 0>>, StringValue |-> <<>>,
     Type |-> IntType]

UnmarshalJSONFloatFirst(b) ==
    IF ParseFloat(b).ok
    THEN [ZeroGaugeValue EXCEPT !.FloatValue = ParseFloat(b).val,
                                !.Type = FloatType]
    ELSE IF ParseInt(b).ok
    THEN [ZeroGaugeValue EXCEPT !.IntValue = ParseInt(b).val,
                                !.Type = IntType]
    ELSE [ZeroGaugeValue EXCEPT !.StringValue = Trim(b, {QUOTE}),
                                !.Type = StringType]

UnmarshalJSONTrimFirst(b) ==
    LET t == Trim(b, {QUOTE})
    IN  IF ParseInt(t).ok
        THEN [ZeroGaugeValue EXCEPT !.IntValue = ParseInt(t).val,
                                    !.Type = IntType]
        ELSE IF ParseFloat(t).ok
        THEN [ZeroGaugeValue EXCEPT !.FloatValue = ParseFloat(t).val,
                                    !.Type = FloatType]
        ELSE [ZeroGaugeValue EXCEPT !.StringValue = t, !.Type = StringType]

(* the decoder never fails: the Go method always returns nil *)
UnmarshalJSON(b) ==
    IF ParseInt(b).ok
    THEN [ZeroGaugeValue EXCEPT !.IntValue = ParseInt(b).val,
                                !.Type = IntType]
    ELSE IF ParseFloat(b).ok
    THEN [ZeroGaugeValue EXCEPT !.FloatValue = ParseFloat(b).val,
                                !.Type = FloatType]
    ELSE [ZeroGaugeValue EXCEPT !.StringValue = Trim(b, {QUOTE}),
                                !.Type = StringType]

(* --------------- JSON scalar tokens (encoding/json scanner) ------------ *)
(* encoding/json hands UnmarshalJSON the raw bytes of a value it has       *)
(* already validated, so the inputs are well-formed JSON tokens.           *)

IsJSONNumber(s) ==
    LET neg  == Len(s) > 0 /\ s[1] = "-"
        body == IF neg THEN Tail0(s, 1) ELSE s
        ePos == IndexAny(body, {"e", "E"}, 1)
        mant == IF ePos = 0 THEN body ELSE SubSeq(body, 1, ePos - 1)
        expo == IF ePos = 0 THEN <<>> ELSE Tail0(body, ePos)
        eDig == IF Len(expo) > 0 /\ expo[1] \in {"+", "-"}
                THEN Tail0(expo, 1) ELSE expo
        dot  == IndexAny(mant, {"."}, 1)
        ip   == IF dot = 0 THEN mant ELSE SubSeq(mant, 1, dot - 1)
        fp   == IF dot = 0 THEN <<>> ELSE Tail0(mant, dot)
    IN  /\ Len(ip) > 0 /\ AllDigits(ip)
        /\ (Len(ip) > 1 => ip[1] # "0")
        /\ (dot # 0 => Len(fp) > 0 /\ AllDigits(fp))
        /\ (ePos # 0 => Len(eDig) > 0 /\ AllDigits(eDig))

(* s[i..] is the rest of a string body: escapes are \" and \\ here *)
RECURSIVE IsStringBody(_, _)
IsStringBody(s, i) ==
    IF i > Len(s) THEN TRUE
    ELSE IF s[i] = QUOTE THEN FALSE
    ELSE IF s[i] = BACKSLASH
         THEN i < Len(s) /\ s[i + 1] \in {QUOTE, BACKSLASH}
              /\ IsStringBody(s, i + 2)
    ELSE IsStringBody(s, i + 1)

IsJSONString(s) ==
    /\ Len(s) >= 2
    /\ s[1] = QUOTE
    /\ s[Len(s)] = QUOTE
    /\ IsStringBody(SubSeq(s, 2, Len(s) - 1), 1)

IsJSONValue(s) == IsJSONNumber(s) \/ IsJSONString(s)

(* ------------------------- schema (Go structs) ------------------------- *)
(* A decoded scalar carries its Go type; a float64 is its decimal pair.    *)

I64(n) == [type |-> "int64", m |-> n, e |-> 0, s |-> ""]

F64(d) == [type |-> "float64", m |-> d[1], e |-> d[2], s |-> ""]

Str(x) == [type |-> "string", m |-> 0, e |-> 0, s |-> x]

F0 == F64(<<0, 0>>)

(* zero values of the payload structs, keyed by their json tags *)
counterZero == [count |-> I64(0)]

histogramZero ==
    [count |-> I64(0), max |-> I64(0), mean |-> F0, min |-> I64(0),
     p50 |-> F0, p75 |-> F0, p95 |-> F0, p98 |-> F0, p99 |-> F0,
     p999 |-> F0, stddev |-> F0]

meterZero ==
    [count |-> I64(0), m15_rate |-> F0, m1_rate |-> F0, m5_rate |-> F0,
     mean_rate |-> F0, units |-> Str("")]

timerZero ==
    [count |-> I64(0), max |-> F0, mean |-> F0, min |-> F0,
     p50 |-> F0, p75 |-> F0, p95 |-> F0, p98 |-> F0, p99 |-> F0,
     p999 |-> F0, stddev |-> F0,
     m15_rate |-> F0, m1_rate |-> F0, m5_rate |-> F0, mean_rate |-> F0,
     duration_units |-> Str(""), rate_units |-> Str("")]

EmptyMap == [n \in {} |-> 0]

metricsZero ==
    [Version |-> "", Gauges |-> EmptyMap, Counters |-> EmptyMap,
     Histograms |-> EmptyMap, Meters |-> EmptyMap, Timers |-> EmptyMap]

(* encoding/json into a struct: known keys are stored, unknown keys are    *)
(* ignored, absent keys keep the zero value                                *)
DecodeStruct(zero, payload) ==
    [f \in DOMAIN zero |->
        IF f \in DOMAIN payload THEN payload[f] ELSE zero[f]]

(* variant: an absent value is decoded like the literal null *)
DecodeGaugeAbsentAsNull(payload) ==
    [Value |-> IF "value" \in DOMAIN payload
               THEN UnmarshalJSON(payload["value"])
               ELSE UnmarshalJSON(<<"n", "u", "l", "l">>)]

(* the gauge struct: Value is decoded by gaugeValue.UnmarshalJSON *)
DecodeGauge(payload) ==
    [Value |-> IF "value" \in DOMAIN payload
               THEN UnmarshalJSON(payload["value"])
               ELSE ZeroGaugeValue]

Nil == "nil"

DecodeErr == "invalid character"

FetchErr == "connection refused"

TLSErr == "could not load keypair"

DecodeJSONMetrics(body) ==
    IF ~body.wellFormed
    THEN [err |-> DecodeErr, m |-> metricsZero]
    ELSE [err |-> Nil,
          m |-> [Version    |-> body.doc.version,
                 Gauges     |-> [n \in DOMAIN body.doc.gauges |->
                                    DecodeGauge(body.doc.gauges[n])],
                 Counters   |-> [n \in DOMAIN body.doc.counters |->
                                    DecodeStruct(counterZero,
                                                 body.doc.counters[n])],
                 Histograms |-> [n \in DOMAIN body.doc.histograms |->
                                    DecodeStruct(histogramZero,
                                                 body.doc.histograms[n])],
                 Meters     |-> [n \in DOMAIN body.doc.meters |->
                                    DecodeStruct(meterZero,
                                                 body.doc.meters[n])],
                 Timers     |-> [n \in DOMAIN body.doc.timers |->
                                    DecodeStruct(timerZero,
                                                 body.doc.timers[n])]]]

(* --------------------- response bodies of the endpoints ---------------- *)

EmptyDoc ==
    [version |-> "", gauges |-> EmptyMap, counters |-> EmptyMap,
     histograms |-> EmptyMap, meters |-> EmptyMap, timers |-> EmptyMap]

(* unread: bytes are left in the stream when Decoder.Decode returns, which *)
(* reads no further than the value it decodes or the first syntax error   *)

(* not JSON at all: an HTML error page longer than the decoder's buffer *)
BodyMalformed == [wellFormed |-> FALSE, unread |-> TRUE, doc |-> EmptyDoc]

(* {"gauges":{"jvm.x":{"value":"3.14"}}} *)
BodyQuotedFloat ==
    [wellFormed |-> TRUE, unread |-> FALSE,
     doc |-> [EmptyDoc EXCEPT
        !.gauges = ("jvm.x" :>
                      [value |-> <<QUOTE, "3", ".", "1", "4", QUOTE>>])]]

(* one metric of every kind, with absent and unknown fields *)
BodyFull ==
    [wellFormed |-> TRUE, unread |-> FALSE,
     doc |-> [version |-> "3.0.0",
        gauges |-> ("jvm.used" :> [value |-> <<"4", "2">>])
                   @@ ("jvm.load" :> [value |-> <<"3", ".", "1", "4">>]),
        counters |-> ("requests.total" :> [count |-> I64(42)]),
        histograms |-> ("sizes" :>
                          [count |-> I64(3), max |-> I64(9), min |-> I64(1),
                           mean |-> F64(<<45, -1>>), p50 |-> F64(<<4, 0>>)]),
        meters |-> ("hits" :>
                      [count |-> I64(7), m1_rate |-> F64(<<5, -1>>),
                       units |-> Str("events/second")]),
        timers |-> ("latency" :>
                      [count |-> I64(2), max |-> F64(<<485, -1>>),
                       p999 |-> F64(<<5, 0>>), m5_rate |-> F64(<<2, -1>>),
                       duration_units |-> Str("seconds"),
                       rate_units |-> Str("calls/second")])]]

(* {"gauges":{"jvm.idle":{}}} *)
BodyNoValue ==
    [wellFormed |-> TRUE, unread |-> FALSE,
     doc |-> [EmptyDoc EXCEPT !.gauges = ("jvm.idle" :> EmptyMap)]]

BodyList == <<BodyMalformed, BodyQuotedFloat, BodyFull, BodyNoValue>>

(* what DecodeJSONMetrics returns for each body *)
Decoded == [k \in 1..Len(BodyList) |-> DecodeJSONMetrics(BodyList[k])]

(* resp.StatusCode: what an endpoint may answer with *)
StatusCodes == {200, 404, 500}

(* every endpoint answers 200 with one of the first three bodies *)
ServedPlain == {[status |-> 200, body |-> k] : k \in 1..3}

(* any status code with any body *)
ServedAny ==
    {[status |-> st, body |-> k] : st \in StatusCodes,
                                   k \in 1..Len(BodyList)}

(* ------------------------------- state --------------------------------- *)

VARIABLES
    configured,   \* urls as written in the configuration file (toml "urls")
    tlsMaterial,  \* ssl_ca / ssl_cert / ssl_key: "valid" or "invalid"
    URLs,         \* d.URLs
    client,       \* d.client
    gpc,          \* Gather: "idle", "running" (loop and wg.Wait), "returned"
    ret,          \* the error Gather returned
    wg,           \* counter of the sync.WaitGroup of the running pass
    pl,           \* the goroutines launched by the running pass, in order
    acc,          \* what the telegraf.Accumulator of the pass has received
    clock,        \* time.Now()
    served,       \* the responses the endpoints of this run answer with
    passes,       \* SpecPasses: number of Gather calls made so far
    tok,          \* SpecDecode: the bytes handed to UnmarshalJSON
    gv,           \* SpecDecode: the receiver *v
    uerr          \* SpecDecode: position and returned error of the call

vars ==
    <<configured, tlsMaterial, URLs, client, gpc, ret, wg, pl, acc,
      clock, served, passes, tok, gv, uerr>>

gatherVars ==
    <<configured, tlsMaterial, URLs, client, gpc, ret, wg, pl, acc,
      clock, served, passes>>

decodeVars == <<tok, gv, uerr>>

(* ---------------------------- configuration ---------------------------- *)

DefaultURL == "http://localhost:8081/metrics"

URLPool ==
    <<"http://a:8081/metrics", "http://b:8081/metrics",
      "http://c:8081/metrics", "http://d:8081/metrics">>

ConfiguredLists ==
    {SubSeq(URLPool, 1, k) : k \in 0..MaxURLs} \cup {<<DefaultURL>>}

TimeoutSeconds == 5

(* internal.GetTLSConfig: an error for unusable TLS material *)
GetTLSConfig(material) ==
    IF material = "invalid"
    THEN [cfg |-> Nil, err |-> TLSErr]
    ELSE [cfg |-> "tlsCfg", err |-> Nil]

NilClient ==
    [set |-> FALSE, ptr |-> 0, TLSClientConfig |-> Nil,
     ResponseHeaderTimeout |-> 0, Timeout |-> 0]

(* &http.Client{...}: ptr stands for the address of the allocation *)
NewClient(cfg, p) ==
    [set |-> TRUE, ptr |-> p, TLSClientConfig |-> cfg,
     ResponseHeaderTimeout |-> TimeoutSeconds, Timeout |-> TimeoutSeconds]

(* ----------------------------- accumulator ----------------------------- *)

EmptyAcc == [metrics |-> EmptyBag, errors |-> EmptyBag]

AddAll(a, recs) == [a EXCEPT !.metrics = @ (+) SetToBag(recs)]

AddError(a, e) == [a EXCEPT !.errors = @ (+) SetToBag({e})]

(* fmt.Errorf("[url=%s]: %s", url, err) *)
FmtErr(url, err) == <<"[url=", url, "]: ", err>>

(* ------------------- gatherURL: the accumulator calls ------------------ *)

(* variant: a string gauge is handed to the sink as well *)
GaugeCallsKeepStrings(name, g, t) ==
    IF g.Value.Type = IntType
    THEN {[ch |-> "AddGauge", name |-> name,
           fields |-> [value |-> I64(g.Value.IntValue)],
           tags |-> Nil, t |-> t]}
    ELSE IF g.Value.Type = FloatType
    THEN {[ch |-> "AddGauge", name |-> name,
           fields |-> [value |-> F64(g.Value.FloatValue)],
           tags |-> Nil, t |-> t]}
    ELSE {[ch |-> "AddGauge", name |-> name,
           fields |-> [value |-> Str("text")],
           tags |-> Nil, t |-> t]}

GaugeCalls(name, g, t) ==
    IF g.Value.Type = IntType
    THEN {[ch |-> "AddGauge", name |-> name,
           fields |-> [value |-> I64(g.Value.IntValue)],
           tags |-> Nil, t |-> t]}
    ELSE IF g.Value.Type = FloatType
    THEN {[ch |-> "AddGauge", name |-> name,
           fields |-> [value |-> F64(g.Value.FloatValue)],
           tags |-> Nil, t |-> t]}
    ELSE {}

CounterCalls(name, c, t) ==
    {[ch |-> "AddCounter", name |-> name,
      fields |-> [count |-> c.count],
      tags |-> Nil, t |-> t]}

HistogramCalls(name, h, t) ==
    {[ch |-> "AddHistogram", name |-> name,
      fields |-> [count |-> h.count, max |-> h.max, mean |-> h.mean,
                  min |-> h.min, p50 |-> h.p50, p75 |-> h.p75,
                  p95 |-> h.p95, p98 |-> h.p98, p99 |-> h.p99,
                  p999 |-> h.p999, stddev |-> h.stddev],
      tags |-> Nil, t |-> t]}

(* variant: meters are handed over as untyped fields, like timers *)
MeterCallsUntyped(name, mt, t) ==
    {[ch |-> "AddFields", name |-> name,
      fields |-> [count |-> mt.count, m15_rate |-> mt.m15_rate,
                  m1_rate |-> mt.m1_rate, m5_rate |-> mt.m5_rate,
                  mean_rate |-> mt.mean_rate],
      tags |-> Nil, t |-> t]}

MeterCalls(name, mt, t) ==
    {[ch |-> "AddHistogram", name |-> name,
      fields |-> [count |-> mt.count, m15_rate |-> mt.m15_rate,
                  m1_rate |-> mt.m1_rate, m5_rate |-> mt.m5_rate,
                  mean_rate |-> mt.mean_rate],
      tags |-> Nil, t |-> t]}

TimerCalls(name, tm, t) ==
    {[ch |-> "AddFields", name |-> name,
      fields |-> [count |-> tm.count, max |-> tm.max, mean |-> tm.mean,
                  min |-> tm.min, p50 |-> tm.p50, p75 |-> tm.p75,
                  p95 |-> tm.p95, p98 |-> tm.p98, p99 |-> tm.p99,
                  p999 |-> tm.p999, stddev |-> tm.stddev,
                  m15_rate |-> tm.m15_rate, m1_rate |-> tm.m1_rate,
                  m5_rate |-> tm.m5_rate, mean_rate |-> tm.mean_rate],
      tags |-> Nil, t |-> t]}

(* the body of one iteration of the range loop over the maps of kind *)
AccCalls(kind, name, m, t) ==
    CASE kind = "gauge"     -> GaugeCalls(name, m.Gauges[name], t)
      [] kind = "counter"   -> CounterCalls(name, m.Counters[name], t)
      [] kind = "histogram" -> HistogramCalls(name, m.Histograms[name], t)
      [] kind = "meter"     -> MeterCalls(name, m.Meters[name], t)
      [] kind = "timer"     -> TimerCalls(name, m.Timers[name], t)

(* the five range loops run in this order; within a map any order *)
KindRank(kind) ==
    CASE kind = "gauge" -> 1 [] kind = "counter" -> 2
      [] kind = "histogram" -> 3 [] kind = "meter" -> 4
      [] kind = "timer" -> 5

Entries(m) ==
    {<<"gauge", n>> : n \in DOMAIN m.Gauges}
      \cup {<<"counter", n>> : n \in DOMAIN m.Counters}
      \cup {<<"histogram", n>> : n \in DOMAIN m.Histograms}
      \cup {<<"meter", n>> : n \in DOMAIN m.Meters}
      \cup {<<"timer", n>> : n \in DOMAIN m.Timers}

NoTime == 0 - 1

(* a goroutine of Gather's loop, about to call gatherURL(acc, url) *)
NewPipeline(url) ==
    [pc |-> "start", url |-> url, now |-> NoTime, body |-> "none",
     via |-> 0, resp |-> 0, status |-> 0, drained |-> FALSE,
     m |-> metricsZero,
     todo |-> {}, err |-> Nil, sent |-> {}]

(* variant: time.Now() evaluated at every acc.Add* call *)
RecordTimePerCall(p, clk) == clk

(* the timestamp argument of every acc.Add* call *)
RecordTime(p, clk) == p.now

(* variant: the closure reads the loop variable after the loop has run *)
LaunchURLShared(i) == URLs[Len(URLs)]

(* the url the goroutine works on: the parameter of the closure *)
LaunchURL(i) == URLs[i]

(* -------------------------------- Init --------------------------------- *)

DecodeIdle == tok = <<>> /\ gv = ZeroGaugeValue /\ uerr = "idle"

Init ==
    /\ configured \in ConfiguredLists
    /\ tlsMaterial \in {"valid", "invalid"}
    /\ URLs = configured
    /\ client = NilClient
    /\ gpc = "idle"
    /\ ret = Nil
    /\ wg = 0
    /\ pl = <<>>
    /\ acc = EmptyAcc
    /\ clock = 0
    /\ served = ServedPlain
    /\ passes = 0
    /\ DecodeIdle

(* ------------------------------- Gather -------------------------------- *)

(* variant: the error of GetTLSConfig is dropped and the pass goes on *)
GatherEnterIgnoreTLSErr(urls) ==
    LET us  == IF Len(urls) = 0 THEN <<DefaultURL>> ELSE urls
        tls == GetTLSConfig(tlsMaterial)
    IN  /\ gpc \in {"idle", "returned"}
        /\ URLs' = us
        /\ acc' = EmptyAcc
        /\ pl' = <<>>
        /\ wg' = 0
        /\ client' = IF client.set THEN client
                     ELSE NewClient(tls.cfg, client.ptr + 1)
        /\ gpc' = "running"
        /\ ret' = Nil
        /\ UNCHANGED <<configured, tlsMaterial, clock>>
        /\ UNCHANGED <<decodeVars, served>>

(* variant: an empty url list is left empty *)
GatherEnterNoDefault(urls) ==
    LET tls == GetTLSConfig(tlsMaterial)
    IN  /\ gpc \in {"idle", "returned"}
        /\ URLs' = urls
        /\ acc' = EmptyAcc
        /\ pl' = <<>>
        /\ wg' = 0
        /\ IF client.set
           THEN client' = client /\ gpc' = "running" /\ ret' = Nil
           ELSE IF tls.err # Nil
           THEN client' = client /\ gpc' = "returned" /\ ret' = tls.err
           ELSE /\ client' = NewClient(tls.cfg, client.ptr + 1)
                /\ gpc' = "running"
                /\ ret' = Nil
        /\ UNCHANGED <<configured, tlsMaterial, clock>>
        /\ UNCHANGED <<decodeVars, served>>

(* variant: the default url is filled in after the client has been built, *)
(* so a pass that fails to build it leaves the list empty                 *)
GatherEnterDefaultLate(urls) ==
    LET us  == IF Len(urls) = 0 THEN <<DefaultURL>> ELSE urls
        tls == GetTLSConfig(tlsMaterial)
    IN  /\ gpc \in {"idle", "returned"}
        /\ acc' = EmptyAcc
        /\ pl' = <<>>
        /\ wg' = 0
        /\ IF client.set
           THEN /\ client' = client /\ gpc' = "running" /\ ret' = Nil
                /\ URLs' = us
           ELSE IF tls.err # Nil
           THEN /\ client' = client /\ gpc' = "returned"
                /\ ret' = tls.err
                /\ URLs' = urls
           ELSE /\ client' = NewClient(tls.cfg, client.ptr + 1)
                /\ gpc' = "running"
                /\ ret' = Nil
                /\ URLs' = us
        /\ UNCHANGED <<configured, tlsMaterial, clock>>
        /\ UNCHANGED <<decodeVars, served>>

(* variant: a new client is built at the start of every pass *)
GatherEnterRebuild(urls) ==
    LET us  == IF Len(urls) = 0 THEN <<DefaultURL>> ELSE urls
        tls == GetTLSConfig(tlsMaterial)
    IN  /\ gpc \in {"idle", "returned"}
        /\ URLs' = us
        /\ acc' = EmptyAcc
        /\ pl' = <<>>
        /\ wg' = 0
        /\ IF tls.err # Nil
           THEN client' = client /\ gpc' = "returned" /\ ret' = tls.err
           ELSE /\ client' = NewClient(tls.cfg, client.ptr + 1)
                /\ gpc' = "running"
                /\ ret' = Nil
        /\ UNCHANGED <<configured, tlsMaterial, clock>>
        /\ UNCHANGED <<decodeVars, served>>

(* lines 85-102 with d.URLs = urls on entry; no goroutine runs yet. Every  *)
(* call is handed the accumulator of its own pass, so acc starts empty.     *)
GatherEnterWith(urls) ==
    LET us  == IF Len(urls) = 0 THEN <<DefaultURL>> ELSE urls
        tls == GetTLSConfig(tlsMaterial)
    IN  /\ gpc \in {"idle", "returned"}
        /\ URLs' = us
        /\ acc' = EmptyAcc
        /\ pl' = <<>>
        /\ wg' = 0
        /\ IF client.set
           THEN client' = client /\ gpc' = "running" /\ ret' = Nil
           ELSE IF tls.err # Nil
           THEN client' = client /\ gpc' = "returned" /\ ret' = tls.err
           ELSE /\ client' = NewClient(tls.cfg, client.ptr + 1)
                /\ gpc' = "running"
                /\ ret' = Nil
        /\ UNCHANGED <<configured, tlsMaterial, clock>>
        /\ UNCHANGED <<decodeVars, served>>

GatherEnter == GatherEnterWith(URLs) /\ UNCHANGED passes

(* variant: gatherURL is called in the loop itself, so an iteration starts *)
(* only after the call of the one before it has returned                  *)
LaunchSequential ==
    /\ gpc = "running"
    /\ Len(pl) < Len(URLs)
    /\ wg = 0
    /\ wg' = wg + 1
    /\ pl' = Append(pl, NewPipeline(LaunchURL(Len(pl) + 1)))
    /\ UNCHANGED <<configured, tlsMaterial, URLs, client, gpc, ret,
                   acc, clock>>
    /\ UNCHANGED <<decodeVars, served, passes>>

(* one iteration of the loop: wg.Add(1); go func(url string){...}(u) *)
Launch ==
    /\ gpc = "running"
    /\ Len(pl) < Len(URLs)
    /\ wg' = wg + 1
    /\ pl' = Append(pl, NewPipeline(LaunchURL(Len(pl) + 1)))
    /\ UNCHANGED <<configured, tlsMaterial, URLs, client, gpc, ret,
                   acc, clock>>
    /\ UNCHANGED <<decodeVars, served, passes>>

(* variant: Gather returns once the loop is over, without wg.Wait() *)
GatherReturnNoWait ==
    /\ gpc = "running"
    /\ Len(pl) = Len(URLs)
    /\ gpc' = "returned"
    /\ ret' = Nil
    /\ UNCHANGED <<configured, tlsMaterial, URLs, client, wg, pl, acc,
                   clock>>
    /\ UNCHANGED <<decodeVars, served, passes>>

(* variant: Gather returns the error of a failed goroutine *)
GatherReturnFirstErr ==
    /\ gpc = "running"
    /\ Len(pl) = Len(URLs)
    /\ wg = 0
    /\ gpc' = "returned"
    /\ ret' = IF \E i \in 1..Len(pl) : pl[i].err # Nil
              THEN pl[CHOOSE i \in 1..Len(pl) : pl[i].err # Nil].err
              ELSE Nil
    /\ UNCHANGED <<configured, tlsMaterial, URLs, client, wg, pl, acc,
                   clock>>
    /\ UNCHANGED <<decodeVars, served, passes>>

(* wg.Wait() unblocks; return nil *)
GatherReturn ==
    /\ gpc = "running"
    /\ Len(pl) = Len(URLs)
    /\ wg = 0
    /\ gpc' = "returned"
    /\ ret' = Nil
    /\ UNCHANGED <<configured, tlsMaterial, URLs, client, wg, pl, acc,
                   clock>>
    /\ UNCHANGED <<decodeVars, served, passes>>

(* ------------------------------ gatherURL ------------------------------ *)

PlFrame ==
    /\ UNCHANGED <<configured, tlsMaterial, URLs, client, gpc, ret,
                   clock>>
    /\ UNCHANGED <<decodeVars, served, passes>>

(* now := time.Now() *)
Start(i) ==
    /\ pl[i].pc = "start"
    /\ pl' = [pl EXCEPT ![i].now = clock, ![i].pc = "get"]
    /\ UNCHANGED <<wg, acc>>
    /\ PlFrame

(* variant: a response with a status other than 200 is turned into an *)
(* error before its body is looked at                                  *)
GetCheckStatus(i) ==
    /\ pl[i].pc = "get"
    /\ \/ pl' = [pl EXCEPT ![i].via = client.ptr, ![i].err = FetchErr,
                            ![i].pc = "ret"]
       \/ \E r \in served :
            IF r.status = 200
            THEN pl' = [pl EXCEPT ![i].via = client.ptr,
                                  ![i].resp = r.body,
                                  ![i].status = r.status,
                                  ![i].body = "open", ![i].pc = "decode"]
            ELSE pl' = [pl EXCEPT ![i].via = client.ptr,
                                  ![i].resp = r.body,
                                  ![i].status = r.status,
                                  ![i].body = "closed",
                                  ![i].err = "bad status",
                                  ![i].pc = "ret"]
    /\ UNCHANGED <<wg, acc>>
    /\ PlFrame

(* resp, err := d.client.Get(url) *)
Get(i) ==
    /\ pl[i].pc = "get"
    /\ \/ pl' = [pl EXCEPT ![i].via = client.ptr, ![i].err = FetchErr,
                            ![i].pc = "ret"]
       \/ \E r \in served :
            pl' = [pl EXCEPT ![i].via = client.ptr, ![i].resp = r.body,
                             ![i].status = r.status, ![i].body = "open",
                             ![i].pc = "decode"]
    /\ UNCHANGED <<wg, acc>>
    /\ PlFrame

(* metrics, err := d.DecodeJSONMetrics(resp.Body); the deferred Close runs *)
(* when gatherURL returns                                                  *)
Decode(i) ==
    /\ pl[i].pc = "decode"
    /\ LET r == Decoded[pl[i].resp]
           d == ~BodyList[pl[i].resp].unread
       IN  IF r.err # Nil
           THEN pl' = [pl EXCEPT ![i].err = r.err, ![i].drained = d,
                                 ![i].body = "closed", ![i].pc = "ret"]
           ELSE pl' = [pl EXCEPT ![i].m = r.m, ![i].drained = d,
                                 ![i].todo = Entries(r.m), ![i].pc = "emit"]
    /\ UNCHANGED <<wg, acc>>
    /\ PlFrame

(* one iteration of one of the five range loops *)
Emit(i) ==
    /\ pl[i].pc = "emit"
    /\ \E e \in pl[i].todo :
        /\ \A f \in pl[i].todo : KindRank(e[1]) <= KindRank(f[1])
        /\ LET recs == AccCalls(e[1], e[2], pl[i].m,
                                RecordTime(pl[i], clock))
           IN  /\ acc' = AddAll(acc, recs)
               /\ pl' = [pl EXCEPT
                    ![i].todo = @ \ {e},
                    ![i].sent = @ \cup {[kind |-> e[1], rec |-> r] :
                                            r \in recs}]
    /\ UNCHANGED wg
    /\ PlFrame

(* return nil, after the last loop *)
Return(i) ==
    /\ pl[i].pc = "emit"
    /\ pl[i].todo = {}
    /\ pl' = [pl EXCEPT ![i].body = "closed", ![i].pc = "exit"]
    /\ UNCHANGED <<wg, acc>>
    /\ PlFrame

(* variant: gatherURL reports its error itself, and the closure again *)
ReportErrorTwice(i) ==
    /\ pl[i].pc = "ret"
    /\ acc' = AddError(AddError(acc, FmtErr(pl[i].url, pl[i].err)),
                       FmtErr(pl[i].url, pl[i].err))
    /\ pl' = [pl EXCEPT ![i].pc = "exit"]
    /\ UNCHANGED wg
    /\ PlFrame

(* if err != nil { acc.AddError(...) } *)
ReportError(i) ==
    /\ pl[i].pc = "ret"
    /\ acc' = AddError(acc, FmtErr(pl[i].url, pl[i].err))
    /\ pl' = [pl EXCEPT ![i].pc = "exit"]
    /\ UNCHANGED wg
    /\ PlFrame

(* defer wg.Done() *)
Done(i) ==
    /\ pl[i].pc = "exit"
    /\ wg' = wg - 1
    /\ pl' = [pl EXCEPT ![i].pc = "done"]
    /\ UNCHANGED acc
    /\ PlFrame

Tick ==
    /\ clock < MaxClock
    /\ clock' = clock + 1
    /\ UNCHANGED <<configured, tlsMaterial, URLs, client, gpc, ret,
                   wg, pl, acc>>
    /\ UNCHANGED <<decodeVars, served, passes>>

Next ==
    \/ GatherEnter
    \/ Launch
    \/ GatherReturn
    \/ \E i \in 1..Len(pl) : Start(i)
    \/ \E i \in 1..Len(pl) : Get(i)
    \/ \E i \in 1..Len(pl) : Decode(i)
    \/ \E i \in 1..Len(pl) : Emit(i)
    \/ \E i \in 1..Len(pl) : Return(i)
    \/ \E i \in 1..Len(pl) : ReportError(i)
    \/ \E i \in 1..Len(pl) : Done(i)
    \/ Tick

Spec == Init /\ [][Next]_vars

(* ------------- a bounded number of passes, any response ---------------- *)

PassLists == {SubSeq(URLPool, 1, k) : k \in 0..MaxPassURLs}

InitPasses ==
    /\ configured \in PassLists
    /\ tlsMaterial \in {"valid", "invalid"}
    /\ URLs = configured
    /\ client = NilClient
    /\ gpc = "idle"
    /\ ret = Nil
    /\ wg = 0
    /\ pl = <<>>
    /\ acc = EmptyAcc
    /\ clock = 0
    /\ served = ServedAny
    /\ passes = 0
    /\ DecodeIdle

(* telegraf calls Gather once per interval; the calls are counted *)
GatherCall ==
    /\ passes < MaxPasses
    /\ GatherEnterWith(URLs)
    /\ passes' = passes + 1

(* the clock stands still here: timestamps are the subject of Spec *)
NextPasses ==
    \/ GatherCall
    \/ Launch
    \/ GatherReturn
    \/ \E i \in 1..Len(pl) : Start(i)
    \/ \E i \in 1..Len(pl) : Get(i)
    \/ \E i \in 1..Len(pl) : Decode(i)
    \/ \E i \in 1..Len(pl) : Emit(i)
    \/ \E i \in 1..Len(pl) : Return(i)
    \/ \E i \in 1..Len(pl) : ReportError(i)
    \/ \E i \in 1..Len(pl) : Done(i)

SpecPasses == InitPasses /\ [][NextPasses]_vars

(* ------------------- fair scheduling of one program -------------------- *)

(* the next statement of goroutine i *)
PipelineStep(i) ==
    \/ Start(i) \/ Get(i) \/ Decode(i) \/ Emit(i) \/ Return(i)
    \/ ReportError(i) \/ Done(i)

(* variant: a goroutine that met an error stops the goroutines still at *)
(* work, which then never reach wg.Done()                               *)
SiblingStepCancelled(i) ==
    /\ \A j \in 1..Len(pl) : j # i => pl[j].err = Nil
    /\ PipelineStep(i)

(* a step of goroutine i is never held back by another goroutine *)
SiblingStep(i) == PipelineStep(i)

(* a step of the running pass: the loop, a goroutine, or wg.Wait returning *)
Progress ==
    \/ Launch
    \/ GatherReturn
    \/ \E i \in 1..Len(pl) : SiblingStep(i)

(* the Go scheduler runs every runnable goroutine, and every Get returns:  *)
(* with a response, an error, or when the client's Timeout expires         *)
Fairness ==
    /\ WF_vars(Launch)
    /\ WF_vars(GatherReturn)
    /\ \A i \in 1..MaxURLs : WF_vars(i \in 1..Len(pl) /\ SiblingStep(i))

(* the clock stands still here: timestamps are the subject of Spec *)
NextLive == GatherEnter \/ Progress

SpecLive == Init /\ [][NextLive]_vars /\ Fairness

(* ------------------- gaugeValue.UnmarshalJSON alone -------------------- *)

DocTokens ==
    {<<QUOTE, "3", ".", "1", "4", QUOTE>>, <<"3", ".", "1", "4">>,
     <<"4", "2">>, <<QUOTE, "4", "2", QUOTE>>}

Tokens ==
    {s \in UNION {[1..n -> Alphabet] : n \in 1..MaxTokLen} : IsJSONValue(s)}
      \cup DocTokens

InitDecode ==
    /\ configured = <<>>
    /\ tlsMaterial = "valid"
    /\ URLs = configured
    /\ client = NilClient
    /\ gpc = "idle"
    /\ ret = Nil
    /\ wg = 0
    /\ pl = <<>>
    /\ acc = EmptyAcc
    /\ clock = 0
    /\ served = ServedPlain
    /\ passes = 0
    /\ tok \in Tokens
    /\ gv = ZeroGaugeValue
    /\ uerr = "idle"

(* err := v.UnmarshalJSON(tok) *)
Unmarshal ==
    /\ uerr = "idle"
    /\ gv' = UnmarshalJSON(tok)
    /\ uerr' = Nil
    /\ UNCHANGED tok
    /\ UNCHANGED gatherVars

NextDecode == Unmarshal

SpecDecode == InitDecode /\ [][NextDecode]_vars

(* ======================= properties of Gather ========================== *)

Launched == 1..Len(pl)

Finished(i) == pl[i].pc \in {"exit", "done"}

Succeeded(i) == Finished(i) /\ pl[i].err = Nil

(* the records gatherURL owes the sink for the body goroutine i received *)
ExpectedRecords(i) ==
    LET m == Decoded[pl[i].resp].m
    IN  UNION {AccCalls(e[1], e[2], m, pl[i].now) : e \in Entries(m)}

SentRecords(i) == {e.rec : e \in pl[i].sent}

RECURSIVE SumExpected(_)
SumExpected(n) ==
    IF n = 0 THEN EmptyBag
    ELSE SumExpected(n - 1)
           (+) (IF pl[n].err = Nil /\ pl[n].resp # 0
                THEN SetToBag(ExpectedRecords(n)) ELSE EmptyBag)

RECURSIVE SumErrors(_)
SumErrors(n) ==
    IF n = 0 THEN EmptyBag
    ELSE SumErrors(n - 1)
           (+) (IF pl[n].err # Nil
                THEN SetToBag({FmtErr(URLs[n], pl[n].err)}) ELSE EmptyBag)

(* C1: when a pass over N urls has returned and exactly one url served     *)
(* malformed JSON while all others succeeded, the sink holds exactly one   *)
(* error, tagged with the failing url, and the complete record set of      *)
(* every other url, whatever the interleaving of the goroutines was.       *)
C1_OneMalformedIsolated ==
    LET bad  == {i \in Launched : pl[i].err = DecodeErr}
        good == {i \in Launched : pl[i].err = Nil}
    IN  (/\ gpc = "returned"
         /\ Len(pl) = Len(URLs)
         /\ Cardinality(bad) = 1
         /\ bad \cup good = Launched)
        => /\ BagCardinality(acc.errors) = 1
           /\ \A f \in bad :
                acc.errors = SetToBag({FmtErr(URLs[f], DecodeErr)})
           /\ \A i \in good : SentRecords(i) = ExpectedRecords(i)
           /\ acc.metrics = SumExpected(Len(pl))

C1_Witness ==
    /\ gpc = "returned"
    /\ Len(pl) = 2
    /\ pl[1].err = DecodeErr
    /\ pl[2].err = Nil
    /\ Cardinality(pl[2].sent) = 6
    /\ BagCardinality(acc.metrics) = 6
    /\ BagCardinality(acc.errors) = 1

(* C2: in a state where Gather has returned, every goroutine of the pass   *)
(* has finished (all urls were launched, the group counter is zero) and    *)
(* the sink already holds every record and every error of the pass.        *)
C2_ReturnAfterAllDone ==
    gpc = "returned" =>
        /\ wg = 0
        /\ ret = Nil => Len(pl) = Len(URLs)
        /\ \A i \in Launched : pl[i].pc = "done"
        /\ acc.metrics = SumExpected(Len(pl))
        /\ acc.errors = SumErrors(Len(pl))

C2_Witness ==
    /\ gpc = "returned"
    /\ Len(pl) = 2
    /\ pl[1].err = Nil
    /\ Cardinality(pl[1].sent) = 6
    /\ pl[2].err = FetchErr
    /\ BagCardinality(acc.metrics) = 6
    /\ BagCardinality(acc.errors) = 1

(* C3: with a client available, Gather returns nil whatever the outcomes   *)
(* of the urls were, also when every url failed; the failures are in the   *)
(* sink, one error per failed url.                                         *)
C3_NoPassLevelError ==
    (gpc = "returned" /\ client.set) =>
        /\ ret = Nil
        /\ acc.errors = SumErrors(Len(pl))
        /\ BagCardinality(acc.errors)
             = Cardinality({i \in Launched : pl[i].err # Nil})

C3_Witness ==
    /\ gpc = "returned"
    /\ client.set
    /\ Len(pl) = 2
    /\ pl[1].err = FetchErr
    /\ pl[2].err = DecodeErr
    /\ ret = Nil
    /\ BagCardinality(acc.errors) = 2

(* C4: with invalid TLS material every Gather call returns the TLS error,  *)
(* launches no goroutine, hands nothing to the sink and leaves d.client    *)
(* nil.                                                                    *)
C4_TLSFailureAbortsPass ==
    (tlsMaterial = "invalid" /\ gpc # "idle") =>
        /\ gpc = "returned"
        /\ ret = TLSErr
        /\ pl = <<>>
        /\ wg = 0
        /\ acc = EmptyAcc
        /\ client = NilClient

C4_Witness ==
    /\ tlsMaterial = "invalid"
    /\ gpc = "returned"
    /\ ret = TLSErr
    /\ Len(URLs) = 2

(* C5: a pass entered with no configured url takes exactly the step a pass *)
(* configured with the one url http://localhost:8081/metrics takes, so the *)
(* two passes go through the same states from then on; the only goroutine  *)
(* of such a pass targets that url and the sink holds its records and      *)
(* errors.                                                                 *)
C5_EmptyActsAsDefault ==
    /\ [](configured = <<>> /\ gpc # "idle" =>
            /\ URLs = <<DefaultURL>>
            /\ Len(pl) <= 1
            /\ \A i \in Launched : pl[i].url = DefaultURL
            /\ (gpc = "returned" /\ ret = Nil) =>
                  /\ Len(pl) = 1
                  /\ acc.metrics = SumExpected(1)
                  /\ acc.errors = SumErrors(1))
    /\ [][(URLs = <<>> /\ gpc = "idle" /\ gpc' # "idle")
            => GatherEnterWith(<<DefaultURL>>)]_vars

C5_Witness ==
    /\ configured = <<>>
    /\ gpc = "returned"
    /\ ret = Nil
    /\ Len(pl) = 1
    /\ pl[1].url = DefaultURL
    /\ pl[1].err = Nil
    /\ BagCardinality(acc.metrics) = 6

(* the field table of the README, section Metrics *)
HistogramFieldNames ==
    {"count", "max", "mean", "min", "p50", "p75", "p95", "p98", "p99",
     "p999", "stddev"}

MeterFieldNames == {"count", "m15_rate", "m1_rate", "m5_rate", "mean_rate"}

FieldTable(kind) ==
    CASE kind = "gauge"     -> {"value"}
      [] kind = "counter"   -> {"count"}
      [] kind = "histogram" -> HistogramFieldNames
      [] kind = "meter"     -> MeterFieldNames
      [] kind = "timer"     -> HistogramFieldNames
                                 \cup (MeterFieldNames \ {"count"})

NumericGauges(m) ==
    {n \in DOMAIN m.Gauges : m.Gauges[n].Value.Type \in {IntType, FloatType}}

RecordCount(m) ==
    Cardinality(NumericGauges(m)) + Cardinality(DOMAIN m.Counters)
      + Cardinality(DOMAIN m.Histograms) + Cardinality(DOMAIN m.Meters)
      + Cardinality(DOMAIN m.Timers)

(* C6: a goroutine that decoded its document and finished has handed the   *)
(* sink as many records as the document has integer or float gauges,       *)
(* counters, histograms, meters and timers; no record stems from a string  *)
(* gauge; the field names of every record are those of its kind's table.   *)
C6_RecordCountAndFields ==
    /\ \A i \in Launched :
        /\ \A e \in pl[i].sent :
            /\ DOMAIN e.rec.fields = FieldTable(e.kind)
            /\ e.kind = "gauge" =>
                 pl[i].m.Gauges[e.rec.name].Value.Type # StringType
        /\ Succeeded(i) => Cardinality(pl[i].sent) = RecordCount(pl[i].m)
    /\ (Len(pl) = 1 /\ Succeeded(1)) =>
          BagCardinality(acc.metrics) = RecordCount(pl[1].m)

C6_Witness ==
    /\ Len(pl) = 2
    /\ Succeeded(1)
    /\ Cardinality(pl[1].sent) = 6
    /\ Succeeded(2)
    /\ pl[2].resp # 0
    /\ DOMAIN pl[2].m.Gauges = {"jvm.x"}
    /\ pl[2].m.Gauges["jvm.x"].Value.Type = StringType
    /\ pl[2].sent = {}

(* the document {"gauges":{"jvm.x":{"value":"3.14"}}} was received *)
GotQuotedFloat(i) ==
    /\ Succeeded(i)
    /\ DOMAIN pl[i].m.Gauges = {"jvm.x"}

(* C8 as stated: the quoted token "3.14" gives one record jvm.x with the   *)
(* float value 3.14.                                                       *)
C8_QuotedFloatIsFloat ==
    \A i \in Launched :
        GotQuotedFloat(i) =>
            /\ pl[i].m.Gauges["jvm.x"].Value.Type = FloatType
            /\ SentRecords(i) =
                 {[ch |-> "AddGauge", name |-> "jvm.x",
                   fields |-> [value |-> F64(<<314, -2>>)],
                   tags |-> Nil, t |-> pl[i].now]}

(* C8 amended: the quoted token "3.14" parses neither as integer nor as    *)
(* float, is classified String with the text 3.14, and the pipeline emits  *)
(* no record for jvm.x; the unquoted token 3.14 (jvm.load) is the one that *)
(* gives a record with the float value 3.14.                               *)
C8_QuotedFloatIsString ==
    \A i \in Launched :
        /\ GotQuotedFloat(i) =>
            /\ pl[i].m.Gauges["jvm.x"].Value.Type = StringType
            /\ pl[i].m.Gauges["jvm.x"].Value.StringValue
                 = <<"3", ".", "1", "4">>
            /\ pl[i].sent = {}
        /\ (Succeeded(i) /\ "jvm.load" \in DOMAIN pl[i].m.Gauges) =>
            /\ pl[i].m.Gauges["jvm.load"].Value.Type = FloatType
            /\ [ch |-> "AddGauge", name |-> "jvm.load",
                fields |-> [value |-> F64(<<314, -2>>)],
                tags |-> Nil, t |-> pl[i].now] \in SentRecords(i)

C8_Witness ==
    /\ Len(pl) = 1
    /\ GotQuotedFloat(1)
    /\ pl[1].pc = "done"
    /\ gpc = "returned"
    /\ acc = EmptyAcc

(* C10: every record a goroutine has handed to the sink carries the time   *)
(* the goroutine read when gatherURL began, which is set before the fetch  *)
(* and is the same for all its records, however far the clock has moved.   *)
C10_OneTimestampPerPipeline ==
    \A i \in Launched :
        /\ pl[i].pc # "start" => (pl[i].now # NoTime /\ pl[i].now <= clock)
        /\ pl[i].pc = "start" => pl[i].now = NoTime
        /\ \A e \in pl[i].sent : e.rec.t = pl[i].now

C10_Witness ==
    \E i \in Launched :
        /\ Cardinality(pl[i].sent) >= 2
        /\ pl[i].pc = "emit"
        /\ pl[i].todo # {}
        /\ pl[i].now < clock

(* =================== properties of UnmarshalJSON ======================= *)

(* a base-10 integer literal: an optional minus sign and digits only *)
IsIntLiteral(s) ==
    /\ IsJSONNumber(s)
    /\ \A i \in 1..Len(s) : s[i] \notin {".", "e", "E"}

LiteralValue(s) ==
    IF s[1] = "-" THEN 0 - DigitsVal(Tail0(s, 1)) ELSE DigitsVal(s)

C9_StringIsUnquotedOnce ==
    (/\ uerr # "idle"
     /\ IsJSONString(tok)
     /\ ~ParseInt(tok).ok
     /\ ~ParseFloat(tok).ok)
    => /\ uerr = Nil
       /\ gv.Type = StringType
       /\ gv.StringValue = SubSeq(tok, 2, Len(tok) - 1)

(* ===================== the sink's channels ============================= *)

Kinds == {"gauge", "counter", "histogram", "meter", "timer"}

ChannelOf(kind) ==
    CASE kind = "gauge"     -> "AddGauge"
      [] kind = "counter"   -> "AddCounter"
      [] kind = "histogram" -> "AddHistogram"
      [] kind = "meter"     -> "AddHistogram"
      [] kind = "timer"     -> "AddFields"

AllSent == UNION {SentRecords(i) : i \in Launched}

(* C13: every record reaches the sink through the channel of its kind:     *)
(* gauges by AddGauge, counters by AddCounter, histograms and meters by    *)
(* AddHistogram, timers by AddFields; the sink has received nothing else.  *)
C13_ChannelOfKind ==
    /\ \A i \in Launched : \A e \in pl[i].sent :
            e.kind \in Kinds /\ e.rec.ch = ChannelOf(e.kind)
    /\ BagToSet(acc.metrics) = AllSent

C13_Witness ==
    \E i \in Launched :
        /\ Succeeded(i)
        /\ {e.kind : e \in pl[i].sent} = Kinds

(* ===================== the response body =============================== *)

Fetched(i) == pl[i].resp # 0

(* C14: when a pipeline that received a response finishes, the body has   *)
(* been read to its end and closed, whether the decode succeeded or not; *)
(* a pipeline whose fetch failed holds no body.                           *)
C14_BodyDrainedAndReleased ==
    \A i \in Launched :
        Finished(i) =>
            IF Fetched(i)
            THEN pl[i].body = "closed" /\ pl[i].drained
            ELSE pl[i].body = "none"

(* ===================== outcome of a pipeline =========================== *)

(* the errors the sink holds for the url of goroutine i, with multiplicity *)
ErrorsOf(i) ==
    LET own == {e \in BagToSet(acc.errors) : e[2] = pl[i].url}
        RECURSIVE Total(_)
        Total(S) == IF S = {} THEN 0
                    ELSE LET e == CHOOSE x \in S : TRUE
                         IN  CopiesIn(e, acc.errors) + Total(S \ {e})
    IN  Total(own)

(* C15: a pipeline ends with one error reported and no record emitted, or  *)
(* with no error and the complete record set of its document; at no time   *)
(* has a pipeline both emitted a record and met an error.                  *)
C15_ErrorOrAllRecords ==
    \A i \in Launched :
        /\ pl[i].err # Nil => pl[i].sent = {}
        /\ pl[i].sent # {} => ErrorsOf(i) = 0
        /\ Finished(i) =>
              \/ /\ pl[i].err # Nil
                 /\ ErrorsOf(i) = 1
                 /\ CopiesIn(FmtErr(pl[i].url, pl[i].err), acc.errors) = 1
                 /\ pl[i].sent = {}
              \/ /\ pl[i].err = Nil
                 /\ ErrorsOf(i) = 0
                 /\ Fetched(i)
                 /\ SentRecords(i) = ExpectedRecords(i)

(* one pipeline of each outcome in the same pass *)
C15_Witness ==
    \E i, j \in Launched :
        /\ Finished(i) /\ pl[i].err # Nil
        /\ Finished(j) /\ pl[j].err = Nil /\ pl[j].sent # {}

(* ========================= concurrency ================================= *)

Fetching(i) == pl[i].pc = "get"

(* C12: the pipelines of a pass run concurrently. While urls are left the  *)
(* loop can launch the next pipeline whatever the earlier ones are doing,  *)
(* Gather waits only once all are launched, every unfinished pipeline can  *)
(* take its next step whatever its siblings are doing.                     *)
C12_PipelinesRunConcurrently ==
    /\ (gpc = "running" /\ Len(pl) < Len(URLs)) => ENABLED Launch
    /\ ENABLED GatherReturn => Len(pl) = Len(URLs)
    /\ \A i \in Launched : pl[i].pc # "done" => ENABLED PipelineStep(i)

(* two fetches are outstanding at the same time *)
C12_Witness ==
    \E i, j \in Launched : i # j /\ Fetching(i) /\ Fetching(j)

(* ========================== termination ================================ *)

AllDone == Len(pl) = Len(URLs) /\ \A i \in Launched : pl[i].pc = "done"

(* C16: under fair scheduling, with every fetch completing, a pass that    *)
(* has started returns, and every pipeline it launched reaches its own     *)
(* completion, also when a sibling has failed.                             *)
C16_PassReturns ==
    /\ (gpc = "running") ~> (gpc = "returned" /\ AllDone)
    /\ \A i \in 1..MaxURLs :
          (i \in Launched /\ \E j \in Launched : j # i /\ pl[j].err # Nil)
              ~> (i \in Launched /\ pl[i].pc = "done")

(* a pass has returned in which a pipeline failed and a sibling completed *)
C16_Witness ==
    /\ gpc = "returned"
    /\ \E i, j \in Launched :
          /\ pl[i].err # Nil /\ pl[i].pc = "done"
          /\ pl[j].err = Nil /\ pl[j].pc = "done" /\ pl[j].sent # {}

(* ======================== the status code ============================== *)

(* C17: the status code of a response plays no part. Whatever the status,  *)
(* a body that is a metrics document gives that document's records and no  *)
(* error, and a body that is not gives one decode error and no record.     *)
C17_StatusIgnored ==
    \A i \in Launched :
        (Finished(i) /\ Fetched(i)) =>
            /\ pl[i].status \in StatusCodes
            /\ IF BodyList[pl[i].resp].wellFormed
               THEN /\ pl[i].err = Nil
                    /\ ErrorsOf(i) = 0
                    /\ SentRecords(i) = ExpectedRecords(i)
               ELSE /\ pl[i].err = DecodeErr
                    /\ ErrorsOf(i) = 1
                    /\ pl[i].sent = {}

(* a 500 answer that carries a metrics document has given its records *)
C17_Witness ==
    \E i \in Launched :
        /\ Finished(i)
        /\ pl[i].status = 500
        /\ pl[i].err = Nil
        /\ pl[i].sent # {}

(* ===================== a gauge without a value ========================== *)

GotNoValue(i) == Fetched(i) /\ BodyList[pl[i].resp] = BodyNoValue

(* C19: a gauge whose payload has no value field keeps the zero gaugeValue *)
(* (Type IntType, IntValue 0), and the pipeline emits for it one gauge     *)
(* record with the fields {value: 0} rather than dropping it.              *)
C19_GaugeWithoutValueIsZero ==
    \A i \in Launched :
        (GotNoValue(i) /\ Succeeded(i)) =>
            /\ pl[i].m.Gauges["jvm.idle"].Value.Type = IntType
            /\ pl[i].m.Gauges["jvm.idle"].Value.IntValue = 0
            /\ SentRecords(i) =
                  {[ch |-> "AddGauge", name |-> "jvm.idle",
                    fields |-> [value |-> I64(0)], tags |-> Nil,
                    t |-> pl[i].now]}
            /\ BagIn([ch |-> "AddGauge", name |-> "jvm.idle",
                      fields |-> [value |-> I64(0)], tags |-> Nil,
                      t |-> pl[i].now], acc.metrics)

C19_Witness ==
    \E i \in Launched :
        GotNoValue(i) /\ Succeeded(i) /\ Cardinality(pl[i].sent) = 1

(* ===================== properties across passes ======================== *)

(* C11: the client is built lazily, by the first pass that gets as far as  *)
(* building it; once built it is never rebuilt, replaced or modified, and  *)
(* every fetch of every pass goes through that one client.                 *)
C11_ClientBuiltOnceAndShared ==
    /\ [](passes = 0 => client = NilClient)
    /\ [](client.set => client = NewClient("tlsCfg", 1))
    /\ [](\A i \in Launched :
            pl[i].pc \notin {"start", "get"} =>
                client.set /\ pl[i].via = client.ptr)
    /\ [][client.set => client' = client]_vars

C11_Witness ==
    /\ passes = MaxPasses
    /\ \E i \in Launched : Finished(i) /\ pl[i].via = 1

(* C18: the default url is substituted at most once. Before the first     *)
(* pass d.URLs is the configured list; the first pass replaces an empty    *)
(* list by the default url, also when it then fails to build the client;   *)
(* from then on no pass changes d.URLs, and a configured list that is not  *)
(* empty is never changed.                                                 *)
C18_DefaultSubstitutedOnce ==
    /\ [](passes = 0 => URLs = configured)
    /\ [](passes > 0 =>
            URLs = IF configured = <<>> THEN <<DefaultURL>>
                                        ELSE configured)
    /\ [][URLs' # URLs =>
            passes = 0 /\ URLs = <<>> /\ URLs' = <<DefaultURL>>]_vars

(* a second pass after a first one that could not build the client *)
C18_Witness ==
    /\ passes = MaxPasses
    /\ configured = <<>>
    /\ tlsMaterial = "invalid"
    /\ ret = TLSErr
    /\ URLs = <<DefaultURL>>

============================================================================
